---- MODULE Spec2Model ----
(***************************************************************************)
(* Model of src/main.py: the five HTTP handlers of the stock analysis      *)
(* service (analyze_stock with its stream_generator, get_stock_price,      *)
(* get_technical_analysis, get_stock_score, get_ai_analysis) driven        *)
(* against their four collaborators (data_provider, indicator, scorer,     *)
(* ai_analyzer), which are the environment.                                *)
(*                                                                         *)
(* Strings that the code slices or concatenates (codes, messages,          *)
(* narrative text) are sequences of one-character / one-token strings.     *)
(***************************************************************************)
EXTENDS Integers, Sequences, FiniteSets, TLC

VARIABLES
    endpoint,                 \* which handler serves the request
    stock_code,               \* query parameter, as given by the caller
    market_type,              \* query parameter
    pc,                       \* position of the handler / generator
    cleaned_stock_code,       \* local of every handler
    df,                       \* result of data_provider.get_stock_data
    df_with_indicators,       \* result of indicator.calculate_indicators
    score,                    \* result of scorer.calculate_score
    recommendation,           \* result of scorer.get_recommendation
    out,                      \* lines yielded by stream_generator, in order
    response,                 \* what a non-streaming handler returned / raised
    calls,                    \* collaborator invocations, in order
    stage,                    \* how each stage of the request went so far
    produced,                 \* fragments ai_analyzer.get_ai_analysis yielded
    full_ai_analysis_text,    \* local of get_ai_analysis
    analysis_score,           \* local of get_ai_analysis
    analysis_recommendation   \* local of get_ai_analysis

vars == << endpoint, stock_code, market_type, pc, cleaned_stock_code, df,
           df_with_indicators, score, recommendation, out, response, calls,
           stage, produced, full_ai_analysis_text, analysis_score,
           analysis_recommendation >>

(***************************************************************************)
(* Bounds of the model.                                                    *)
(***************************************************************************)
\* most fragments one run of the narrative generator yields
MaxFrags == 3
\* longest instrument code drawn for the normalizer's own specification
MaxCodeLen == 3

(***************************************************************************)
(* Values.                                                                 *)
(***************************************************************************)
None == "None"

Endpoints == {"analyze_stock", "get_stock_price", "get_technical_analysis",
              "get_stock_score", "get_ai_analysis"}

\* characters of instrument codes: prefix letters in both cases, one other
\* letter and one digit
Alphabet == {"s", "S", "h", "H", "z", "Z", "K", "6"}

\* "sh6" stands for "sh600795", "HK6" for "HK00700", "6" for "600795"
RequestCodes == { <<"s", "h", "6">>, <<"S", "Z", "6">>, <<"6">>,
                  <<"H", "K", "6">> }

MarketTypes == {"A", "HK"}

\* str.lower() on one character
LowerChar(c) ==
    CASE c = "S" -> "s"
      [] c = "H" -> "h"
      [] c = "Z" -> "z"
      [] c = "K" -> "k"
      [] OTHER -> c

\* str.lower()
Lower(s) == [i \in 1..Len(s) |-> LowerChar(s[i])]

\* str.startswith(prefix)
StartsWith(s, prefix) ==
    /\ Len(s) >= Len(prefix)
    /\ \A i \in 1..Len(prefix) : s[i] = prefix[i]

\* s[2:]
SliceFrom2(s) == [i \in 1..(IF Len(s) > 2 THEN Len(s) - 2 ELSE 0) |-> s[i + 2]]

(***************************************************************************)
(* Ticker normalization.  Each handler carries its own copy of the same    *)
(* four lines; each copy is translated on its own.                         *)
(***************************************************************************)
\* stock_code.lower().startswith('sh') or stock_code.lower().startswith('sz')
HasExchangePrefix(code) ==
    \/ StartsWith(Lower(code), <<"s", "h">>)
    \/ StartsWith(Lower(code), <<"s", "z">>)

\* analyze_stock.stream_generator, lines 72-76
cleaned_analyze_stock(code, mkt) ==
    IF mkt = "A"
    THEN IF HasExchangePrefix(code) THEN SliceFrom2(code) ELSE code
    ELSE code

\* get_stock_price, lines 183-187
cleaned_get_stock_price(code, mkt) ==
    IF mkt = "A"
    THEN IF HasExchangePrefix(code) THEN SliceFrom2(code) ELSE code
    ELSE code

\* the normalization without .lower(): only the lower-case prefixes match
cleaned_case_sensitive(code, mkt) ==
    IF mkt = "A"
    THEN IF StartsWith(code, <<"s", "h">>) \/ StartsWith(code, <<"s", "z">>)
         THEN SliceFrom2(code) ELSE code
    ELSE code

\* get_technical_analysis, lines 259-263
cleaned_get_technical_analysis(code, mkt) ==
    IF mkt = "A"
    THEN IF HasExchangePrefix(code) THEN SliceFrom2(code) ELSE code
    ELSE code

\* get_stock_score, lines 361-365
cleaned_get_stock_score(code, mkt) ==
    IF mkt = "A"
    THEN IF HasExchangePrefix(code) THEN SliceFrom2(code) ELSE code
    ELSE code

\* get_ai_analysis, lines 424-428
cleaned_get_ai_analysis(code, mkt) ==
    IF mkt = "A"
    THEN IF HasExchangePrefix(code) THEN SliceFrom2(code) ELSE code
    ELSE code

\* the normalization the handler of endpoint e performs
Cleaned(e, code, mkt) ==
    CASE e = "analyze_stock"          -> cleaned_analyze_stock(code, mkt)
      [] e = "get_stock_price"        -> cleaned_get_stock_price(code, mkt)
      [] e = "get_technical_analysis" -> cleaned_get_technical_analysis(code, mkt)
      [] e = "get_stock_score"        -> cleaned_get_stock_score(code, mkt)
      [] e = "get_ai_analysis"        -> cleaned_get_ai_analysis(code, mkt)

(***************************************************************************)
(* What the collaborators hand back.                                       *)
(***************************************************************************)
\* Series.get(key, default) / dict.get(key, default)
Get(row, key, default) == IF key \in DOMAIN row THEN row[key] ELSE default

\* bars; prices in cents, Date is the row's index label (latest_data.name)
BarPrev == [Date |-> "2024-12-30", Close |-> 1000, Open |-> 990,
            High |-> 1010, Low |-> 980, Volume |-> 100]
BarLast == [Date |-> "2024-12-31", Close |-> 1050, Open |-> 1000,
            High |-> 1060, Low |-> 995, Volume |-> 200]
BarLastPct == [Date |-> "2024-12-31", Close |-> 1050, Open |-> 1000,
               High |-> 1060, Low |-> 995, Volume |-> 200, Change_pct |-> 5]
\* a bar of a frame that lacks the Close column
BarNoClose == [Date |-> "2024-12-31", Open |-> 1000, High |-> 1060,
               Low |-> 995, Volume |-> 200]

\* frames get_stock_data returns without an error attribute
Frames == { << >>, <<BarLast>>, <<BarPrev, BarLastPct>>, <<BarNoClose>> }

\* str(e) / df.error texts
DataErrorText == <<"data source error">>
ExceptionText == <<"boom">>

\* objects get_stock_data returns: with an error attribute, or a frame
DataResults ==
    { [has_error |-> TRUE, error |-> DataErrorText, rows |-> << >>] }
    \cup { [has_error |-> FALSE, error |-> << >>, rows |-> f] : f \in Frames }

\* exceptions a collaborator call can raise out of
Exceptions == {"KeyError", "Exception"}

\* derived columns calculate_indicators adds to the latest row; the second
\* row is inside the warm-up period of every window but the RSI's
IndicatorRows ==
    { [MA5 |-> 104, MA20 |-> 102, MA60 |-> 100, MACD |-> 5, Signal |-> 3,
       Volume_MA |-> 100, RSI |-> 55],
      [RSI |-> 50] }

\* indicator.calculate_indicators(df): same rows, latest one extended
WithIndicators(rows, ind) ==
    [i \in 1..Len(rows) |-> IF i = Len(rows) THEN rows[i] @@ ind ELSE rows[i]]

Scores == {"40", "85"}
\* scorer.get_recommendation(score)
Recommendation(s) == IF s = "85" THEN "buy" ELSE "hold"

\* datetime.now().strftime('%Y-%m-%d') at the time of the call
Dates == {"2025-01-01", "2025-01-02"}

(***************************************************************************)
(* Derived metrics of the latest row, as analyze_stock computes them.      *)
(***************************************************************************)
\* df.iloc[-1]
Latest(rows) == rows[Len(rows)]

\* df.iloc[-2] if len(df) > 1 else latest_data
Previous(rows) == IF Len(rows) > 1 THEN rows[Len(rows) - 1] ELSE Latest(rows)

\* row['Close'] raises KeyError when the frame has no Close column
CloseMissing(rows) ==
    \/ "Close" \notin DOMAIN Latest(rows)
    \/ "Close" \notin DOMAIN Previous(rows)

\* what reading the latest and previous Close raises: IndexError (an
\* Exception) from iloc[-1] on a frame without rows, KeyError from ['Close']
\* on a frame without that column, or nothing
LookupError(rows) ==
    IF Len(rows) = 0 THEN "Exception"
    ELSE IF CloseMissing(rows) THEN "KeyError"
    ELSE "none"

\* latest_data['Close'] - previous_data['Close']
PriceChangeValue(rows) == Latest(rows).Close - Previous(rows).Close

\* change_percent with "if not change_percent" in place of "is None": a
\* precomputed 0 is computed again
ChangePercentFalsy(rows) ==
    IF "Change_pct" \in DOMAIN Latest(rows) /\ Latest(rows).Change_pct # 0
    THEN [null |-> FALSE, num |-> Latest(rows).Change_pct, den |-> 1]
    ELSE IF Previous(rows).Close # 0
         THEN [null |-> FALSE, num |-> PriceChangeValue(rows) * 100,
               den |-> Previous(rows).Close]
         ELSE [null |-> TRUE, num |-> 0, den |-> 1]

\* change_percent, a fraction num/den or null:
\*   latest_data.get('Change_pct'), else
\*   (price_change_value / previous_data['Close']) * 100 when that close is not 0
ChangePercent(rows) ==
    IF "Change_pct" \in DOMAIN Latest(rows)
    THEN [null |-> FALSE, num |-> Latest(rows).Change_pct, den |-> 1]
    ELSE IF Previous(rows).Close # 0
         THEN [null |-> FALSE, num |-> PriceChangeValue(rows) * 100,
               den |-> Previous(rows).Close]
         ELSE [null |-> TRUE, num |-> 0, den |-> 1]

\* the chains with >= and <= in place of > and <
MaTrendNonStrict(latest) ==
    LET ma_short  == Get(latest, "MA5", 0)
        ma_medium == Get(latest, "MA20", 0)
        ma_long   == Get(latest, "MA60", 0)
    IN  IF ma_short >= ma_medium /\ ma_medium >= ma_long THEN "UP"
        ELSE IF ma_short <= ma_medium /\ ma_medium <= ma_long THEN "DOWN"
        ELSE "FLAT"

\* stream_generator, lines 107-112
MaTrend(latest) ==
    LET ma_short  == Get(latest, "MA5", 0)
        ma_medium == Get(latest, "MA20", 0)
        ma_long   == Get(latest, "MA60", 0)
    IN  IF ma_short > ma_medium /\ ma_medium > ma_long THEN "UP"
        ELSE IF ma_short < ma_medium /\ ma_medium < ma_long THEN "DOWN"
        ELSE "FLAT"

\* stream_generator, lines 114-118
MacdSignal(latest) ==
    LET macd   == Get(latest, "MACD", 0)
        signal == Get(latest, "Signal", 0)
    IN  IF macd > signal THEN "BUY"
        ELSE IF macd < signal THEN "SELL"
        ELSE "HOLD"

\* the thresholds with >= and <= in place of > and <
VolumeStatusInclusive(latest) ==
    LET volume    == Get(latest, "Volume", 0)
        volume_ma == Get(latest, "Volume_MA", 0)
    IN  IF 2 * volume >= 3 * volume_ma THEN "HIGH"
        ELSE IF 2 * volume <= volume_ma THEN "LOW"
        ELSE "NORMAL"

\* stream_generator, lines 120-124; v > m * 1.5 is 2v > 3m, v < m * 0.5 is 2v < m
VolumeStatus(latest) ==
    LET volume    == Get(latest, "Volume", 0)
        volume_ma == Get(latest, "Volume_MA", 0)
    IN  IF 2 * volume > 3 * volume_ma THEN "HIGH"
        ELSE IF 2 * volume < volume_ma THEN "LOW"
        ELSE "NORMAL"

\* get_technical_analysis, lines 283-292
TechMaTrend(latest) ==
    LET ma_short  == Get(latest, "MA5", 0)
        ma_medium == Get(latest, "MA20", 0)
        ma_long   == Get(latest, "MA60", 0)
    IN  IF ma_short > ma_medium /\ ma_medium > ma_long THEN "UP"
        ELSE IF ma_short < ma_medium /\ ma_medium < ma_long THEN "DOWN"
        ELSE "FLAT"

\* a MACD signal without the equal case
TechMacdSignalNoHold(latest) ==
    LET macd   == Get(latest, "MACD", 0)
        signal == Get(latest, "Signal", 0)
    IN  IF macd >= signal THEN "BUY" ELSE "SELL"

\* get_technical_analysis, lines 295-303
TechMacdSignal(latest) ==
    LET macd   == Get(latest, "MACD", 0)
        signal == Get(latest, "Signal", 0)
    IN  IF macd > signal THEN "BUY"
        ELSE IF macd < signal THEN "SELL"
        ELSE "HOLD"

\* get_technical_analysis, lines 306-314
TechVolumeStatus(latest) ==
    LET volume    == Get(latest, "Volume", 0)
        volume_ma == Get(latest, "Volume_MA", 0)
    IN  IF 2 * volume > 3 * volume_ma THEN "HIGH"
        ELSE IF 2 * volume < volume_ma THEN "LOW"
        ELSE "NORMAL"

(***************************************************************************)
(* The lines stream_generator yields.  A line is the object it encodes,    *)
(* tagged with the source line of the yield statement.                     *)
(***************************************************************************)
\* f"获取到的股票 {cleaned_stock_code} 数据为空"
EmptyDataText(code) == <<"stock ">> \o code \o <<" data is empty">>

\* f"股票代码 {stock_code} 在数据源中不存在或格式不正确: {str(ke)}"
KeyErrorText(code) == <<"stock code ">> \o code \o <<" not in data source: ">>
                      \o ExceptionText

\* line 83: the data source reported an error
DataErrorEvent(d) ==
    [line |-> 83,
     body |-> [error |-> d.error, stock_code |-> cleaned_stock_code,
               status |-> "error"]]

\* line 89: the data source returned an empty frame
EmptyDataEvent ==
    [line |-> 89,
     body |-> [error |-> EmptyDataText(cleaned_stock_code),
               stock_code |-> cleaned_stock_code, status |-> "error"]]

\* line 152: except KeyError
KeyErrorEvent ==
    [line |-> 152,
     body |-> [error |-> KeyErrorText(stock_code), stock_code |-> stock_code,
               status |-> "error"]]

\* lines 155-156: except Exception
ExceptionEvent ==
    [line |-> 156, body |-> [error |-> ExceptionText]]

\* the except clauses of stream_generator, lines 149-156
ExceptEvent(exc) == IF exc = "KeyError" THEN KeyErrorEvent ELSE ExceptionEvent

\* lines 126-143: basic_result
BasicEvent(date) ==
    LET latest_data == Latest(df_with_indicators) IN
    [line |-> 143,
     body |-> [stock_code         |-> stock_code,
               market_type        |-> market_type,
               analysis_date      |-> date,
               score              |-> score,
               price              |-> latest_data.Close,
               price_change_value |-> PriceChangeValue(df_with_indicators),
               change_percent     |-> ChangePercent(df_with_indicators),
               ma_trend           |-> MaTrend(latest_data),
               rsi                |-> Get(latest_data, "RSI", 0),
               macd_signal        |-> MacdSignal(latest_data),
               volume_status      |-> VolumeStatus(latest_data),
               recommendation     |-> recommendation,
               ai_analysis        |-> << >>]]

\* line 147: one fragment of the narrative generator, passed through
FragmentEvent(frag) == [line |-> 147, body |-> frag]

(***************************************************************************)
(* The narrative generator, ai_analyzer.get_ai_analysis(..., stream=True): *)
(* a lazy sequence of JSON-encoded fragments.  A fragment carries its      *)
(* decoded object and whether its text is valid JSON.                      *)
(***************************************************************************)
TextFragment(t) ==
    [valid |-> TRUE, obj |-> [ai_analysis_chunk |-> t, status |-> "analyzing"]]

\* the structured completion marker
CompletedFragment ==
    [valid |-> TRUE,
     obj |-> [status |-> "completed", score |-> "70",
              recommendation |-> "hold"]]

\* a completion marker that carries no score and no recommendation
BareCompletedFragment == [valid |-> TRUE, obj |-> [status |-> "completed"]]

\* a completion marker that carries the last of the text as well
CompletedTextFragment ==
    [valid |-> TRUE,
     obj |-> [ai_analysis_chunk |-> <<"z">>, status |-> "completed",
              score |-> "70", recommendation |-> "hold"]]

\* a fragment with an empty text
EmptyTextFragment == TextFragment(<< >>)

\* a fragment that is not valid JSON
InvalidFragment == [valid |-> FALSE, obj |-> [raw |-> "not json"]]

Fragments == { TextFragment(<<"a">>), TextFragment(<<"b">>), EmptyTextFragment,
               CompletedFragment, BareCompletedFragment, CompletedTextFragment,
               InvalidFragment }

IsCompleted(frag) == frag.valid /\ Get(frag.obj, "status", None) = "completed"

\* the generator has produced its terminal fragment
Completed == \E i \in 1..Len(produced) : IsCompleted(produced[i])

\* the generator can yield frag next: the completion marker is its last
\* fragment, and a run is at most MaxFrags fragments long
CanYield(frag) ==
    /\ frag \in Fragments
    /\ ~Completed
    /\ Len(produced) < MaxFrags

(***************************************************************************)
(* Initial state: one request, nothing run yet.                            *)
(***************************************************************************)
NoFrame == [has_error |-> FALSE, error |-> << >>, rows |-> << >>]
NoResponse == [status |-> 0, body |-> [detail |-> << >>]]

\* outcome of each stage: "not_run", "running", "ok", or how it failed
\* ("error": the frame has an error attribute, "empty": it has no rows,
\* "no_marker": the narrative ended without its completion marker, or the
\* exception raised); cancel is the exception a disconnecting consumer
\* threw into the generator
NotRun == [data |-> "not_run", indicators |-> "not_run", score |-> "not_run",
           summary |-> "not_run", narrative |-> "not_run", cancel |-> "not_run"]
Went(stg, how) == stage' = [stage EXCEPT ![stg] = how]

Init ==
    /\ endpoint \in Endpoints
    /\ stock_code \in RequestCodes
    /\ market_type \in MarketTypes
    /\ pc = "start"
    /\ cleaned_stock_code = << >>
    /\ df = NoFrame
    /\ df_with_indicators = << >>
    /\ score = None
    /\ recommendation = None
    /\ out = << >>
    /\ response = NoResponse
    /\ calls = << >>
    /\ stage = NotRun
    /\ produced = << >>
    /\ full_ai_analysis_text = << >>
    /\ analysis_score = None
    /\ analysis_recommendation = None

\* one collaborator invocation; code is the instrument code passed, if any
Call(fn, code) == [fn |-> fn, code |-> code]
NoCode == << >>

request == << endpoint, stock_code, market_type >>
aggregate == << full_ai_analysis_text, analysis_score, analysis_recommendation >>

(***************************************************************************)
(* analyze_stock: stream_generator, lines 68-156.  The generator runs      *)
(* from one suspension point (await, yield) to the next.                   *)
(***************************************************************************)
Streaming == endpoint = "analyze_stock"

\* where stream_generator is suspended: at an await or at a yield
SuspensionPoints == {"await_data", "await_fragment", "yield_basic",
                     "yield_fragment", "yield_error"}

\* an except clause that catches BaseException: everything is caught
ExceptClauseCatchesAll(exc) ==
    IF exc = "KeyError" THEN "KeyError" ELSE "Exception"

\* which except clause of lines 149-156 catches exc; CancelledError and
\* GeneratorExit derive from BaseException and pass both clauses
ExceptClause(exc) ==
    CASE exc = "KeyError"  -> "KeyError"
      [] exc = "Exception" -> "Exception"
      [] OTHER             -> "none"

\* lines 72-77: normalize, then await data_provider.get_stock_data
StreamBegin ==
    /\ Streaming /\ pc = "start"
    /\ cleaned_stock_code' = cleaned_analyze_stock(stock_code, market_type)
    /\ calls' = Append(calls, Call("get_stock_data", cleaned_stock_code'))
    /\ Went("data", "running")
    /\ pc' = "await_data"
    /\ UNCHANGED << request, df, df_with_indicators, score, recommendation,
                    out, response, produced, aggregate >>

\* lines 77-90: get_stock_data returned r
StreamDataReturns(r) ==
    /\ Streaming /\ pc = "await_data"
    /\ df' = r
    /\ Went("data", IF r.has_error THEN "error"
                     ELSE IF Len(r.rows) = 0 THEN "empty" ELSE "ok")
    /\ IF r.has_error
       THEN /\ out' = Append(out, DataErrorEvent(r))
            /\ pc' = "yield_error"
       ELSE IF Len(r.rows) = 0
       THEN /\ out' = Append(out, EmptyDataEvent)
            /\ pc' = "yield_error"
       ELSE /\ out' = out
            /\ pc' = "indicators"
    /\ UNCHANGED << request, cleaned_stock_code, df_with_indicators, score,
                    recommendation, response, calls, produced, aggregate >>

\* an exception exc reaches the try block of stream_generator: lines 149-156
StreamRaise(stg, exc) ==
    /\ Went(stg, exc)
    /\ out' = Append(out, ExceptEvent(exc))
    /\ pc' = "yield_error"

\* a retry: get_stock_data raised and is called again
StreamDataRaisesRetries(exc) ==
    /\ Streaming /\ pc = "await_data"
    /\ calls' = Append(calls, Call("get_stock_data", cleaned_stock_code))
    /\ UNCHANGED << request, stage, pc, out, cleaned_stock_code, df,
                    df_with_indicators, score, recommendation, response,
                    produced, aggregate >>

\* line 77: get_stock_data raised
StreamDataRaises(exc) ==
    /\ Streaming /\ pc = "await_data"
    /\ StreamRaise("data", exc)
    /\ UNCHANGED << request, cleaned_stock_code, df, df_with_indicators, score,
                    recommendation, response, calls, produced, aggregate >>

\* line 93: indicator.calculate_indicators(df)
StreamIndicators(ind) ==
    /\ Streaming /\ pc = "indicators"
    /\ calls' = Append(calls, Call("calculate_indicators", NoCode))
    /\ df_with_indicators' = WithIndicators(df.rows, ind)
    /\ Went("indicators", "ok")
    /\ pc' = "score"
    /\ UNCHANGED << request, cleaned_stock_code, df, score, recommendation,
                    out, response, produced, aggregate >>

\* line 93: calculate_indicators raised
StreamIndicatorsRaise(exc) ==
    /\ Streaming /\ pc = "indicators"
    /\ calls' = Append(calls, Call("calculate_indicators", NoCode))
    /\ StreamRaise("indicators", exc)
    /\ UNCHANGED << request, cleaned_stock_code, df, df_with_indicators, score,
                    recommendation, response, produced, aggregate >>

\* lines 96-97: scorer.calculate_score, scorer.get_recommendation
StreamScore(s) ==
    /\ Streaming /\ pc = "score"
    /\ calls' = calls \o << Call("calculate_score", NoCode),
                           Call("get_recommendation", NoCode) >>
    /\ score' = s
    /\ recommendation' = Recommendation(s)
    /\ Went("score", "ok")
    /\ pc' = "summary"
    /\ UNCHANGED << request, cleaned_stock_code, df, df_with_indicators, out,
                    response, produced, aggregate >>

\* line 96: calculate_score raised
StreamScoreRaises(exc) ==
    /\ Streaming /\ pc = "score"
    /\ calls' = Append(calls, Call("calculate_score", NoCode))
    /\ StreamRaise("score", exc)
    /\ UNCHANGED << request, cleaned_stock_code, df, df_with_indicators, score,
                    recommendation, response, produced, aggregate >>

\* lines 100-143: assemble basic_result and yield it, unless reading the
\* closes raises (lines 100-102)
StreamYieldBasic(date) ==
    /\ Streaming /\ pc = "summary"
    /\ IF LookupError(df_with_indicators) # "none"
       THEN StreamRaise("summary", LookupError(df_with_indicators))
       ELSE /\ Went("summary", "ok")
            /\ out' = Append(out, BasicEvent(date))
            /\ pc' = "yield_basic"
    /\ UNCHANGED << request, cleaned_stock_code, df, df_with_indicators, score,
                    recommendation, response, calls, produced, aggregate >>

\* line 146: resumed after the Basic line, call ai_analyzer.get_ai_analysis and
\* wait for its first fragment
StreamStartNarrative ==
    /\ Streaming /\ pc = "yield_basic"
    /\ calls' = Append(calls, Call("get_ai_analysis", cleaned_stock_code))
    /\ Went("narrative", "running")
    /\ pc' = "await_fragment"
    /\ UNCHANGED << request, cleaned_stock_code, df, df_with_indicators, score,
                    recommendation, out, response, produced, aggregate >>

\* the loop of get_ai_analysis in place of the pass-through: the completion
\* marker ends the loop before it is yielded
StreamFragmentDropsMarker(frag) ==
    /\ Streaming /\ pc = "await_fragment"
    /\ CanYield(frag)
    /\ produced' = Append(produced, frag)
    /\ IF IsCompleted(frag)
       THEN /\ out' = out
            /\ Went("narrative", "ok")
            /\ pc' = "done"
       ELSE /\ out' = Append(out, FragmentEvent(frag))
            /\ stage' = stage
            /\ pc' = "yield_fragment"
    /\ UNCHANGED << request, cleaned_stock_code, df, df_with_indicators, score,
                    recommendation, response, calls, aggregate >>

\* lines 146-147: the narrative generator yields frag, which is passed on
StreamFragment(frag) ==
    /\ Streaming /\ pc = "await_fragment"
    /\ CanYield(frag)
    /\ produced' = Append(produced, frag)
    /\ out' = Append(out, FragmentEvent(frag))
    /\ pc' = "yield_fragment"
    /\ UNCHANGED << request, stage, cleaned_stock_code, df, df_with_indicators, score,
                    recommendation, response, calls, aggregate >>

\* line 146: resumed after a fragment line, wait for the next fragment
StreamNextFragment ==
    /\ Streaming /\ pc = "yield_fragment"
    /\ pc' = "await_fragment"
    /\ UNCHANGED << request, stage, cleaned_stock_code, df, df_with_indicators, score,
                    recommendation, out, response, calls, produced, aggregate >>

\* line 146: the narrative generator is exhausted; the loop and the generator end
StreamNarrativeEnds ==
    /\ Streaming /\ pc = "await_fragment"
    /\ Went("narrative", IF Completed THEN "ok" ELSE "no_marker")
    /\ pc' = "done"
    /\ UNCHANGED << request, cleaned_stock_code, df, df_with_indicators, score,
                    recommendation, out, response, calls, produced, aggregate >>

\* the except clauses inside the loop: after the error line the loop goes on
StreamNarrativeRaisesLoopGoesOn(exc) ==
    /\ Streaming /\ pc = "await_fragment"
    /\ ~Completed
    /\ Went("narrative", exc)
    /\ out' = Append(out, ExceptEvent(exc))
    /\ pc' = "yield_fragment"
    /\ UNCHANGED << request, cleaned_stock_code, df, df_with_indicators, score,
                    recommendation, response, calls, produced, aggregate >>

\* line 146: the narrative generator raised before its terminal fragment
StreamNarrativeRaises(exc) ==
    /\ Streaming /\ pc = "await_fragment"
    /\ ~Completed
    /\ StreamRaise("narrative", exc)
    /\ UNCHANGED << request, cleaned_stock_code, df, df_with_indicators, score,
                    recommendation, response, calls, produced, aggregate >>

\* the return of lines 84 and 90 left out: after the error line of a data
\* check the generator goes on to the indicators
StreamEndWithoutReturn ==
    /\ Streaming /\ pc = "yield_error"
    /\ pc' = IF stage.data \in {"error", "empty"} THEN "indicators" ELSE "done"
    /\ UNCHANGED << request, stage, cleaned_stock_code, df, df_with_indicators,
                    score, recommendation, out, response, calls, produced,
                    aggregate >>

\* lines 84, 90 and the end of the except clauses: resumed after an error
\* line, the generator returns
StreamEnd ==
    /\ Streaming /\ pc = "yield_error"
    /\ pc' = "done"
    /\ UNCHANGED << request, stage, cleaned_stock_code, df, df_with_indicators, score,
                    recommendation, out, response, calls, produced, aggregate >>

\* the consumer disconnected: CancelledError is thrown into the generator at
\* an await, GeneratorExit at a yield.  Neither is caught, the generator is
\* abandoned where it stands
StreamCancel ==
    /\ Streaming /\ pc \in SuspensionPoints
    /\ stage.cancel = "not_run"
    /\ LET exc == IF pc \in {"await_data", "await_fragment"}
                  THEN "CancelledError" ELSE "GeneratorExit"
       IN  IF ExceptClause(exc) = "none"
           THEN /\ Went("cancel", exc)
                /\ pc' = "cancelled"
                /\ out' = out
           ELSE StreamRaise("cancel", exc)
    /\ UNCHANGED << request, cleaned_stock_code, df, df_with_indicators, score,
                    recommendation, response, calls, produced, aggregate >>

StreamNext ==
    \/ StreamBegin
    \/ \E r \in DataResults : StreamDataReturns(r)
    \/ \E exc \in Exceptions : StreamDataRaises(exc)
    \/ \E ind \in IndicatorRows : StreamIndicators(ind)
    \/ \E exc \in Exceptions : StreamIndicatorsRaise(exc)
    \/ \E s \in Scores : StreamScore(s)
    \/ \E exc \in Exceptions : StreamScoreRaises(exc)
    \/ \E date \in Dates : StreamYieldBasic(date)
    \/ StreamStartNarrative
    \/ \E frag \in Fragments : StreamFragment(frag)
    \/ StreamNextFragment
    \/ StreamNarrativeEnds
    \/ \E exc \in Exceptions : StreamNarrativeRaises(exc)
    \/ StreamEnd
    \/ StreamCancel

(***************************************************************************)
(* The four handlers that return one JSON object.  Their first lines       *)
(* (normalize, get_stock_data, the two checks, the except clauses) are the *)
(* same in each: get_stock_price 180-198 and 227-234, get_technical_       *)
(* analysis 256-274 and 329-336, get_stock_score 358-376 and 392-399,      *)
(* get_ai_analysis 421-439 and 477-484.                                    *)
(***************************************************************************)
Plain == endpoint # "analyze_stock"

\* return body
Return(body) == [status |-> 200, body |-> body]

\* raise HTTPException(status_code=status, detail=detail)
HTTPException(status, detail) == [status |-> status, body |-> [detail |-> detail]]

\* no except HTTPException clause: the HTTPException raised inside the try
\* block is an Exception, and except Exception rewrites it to 500
ExceptHTTPExceptionAs500(http) == HTTPException(500, http.body.detail)

\* except HTTPException: raise -- an HTTPException raised inside the try block
\* leaves the handler as it is (lines 227-228, 329-330, 392-393, 477-478)
ExceptHTTPException(http) == http

\* f"股票代码 {cleaned_stock_code} 在数据源中不存在或格式不正确"
PlainKeyErrorText(code) == <<"stock code ">> \o code \o <<" not in data source">>

\* the except clauses of a handler: HTTPException is re-raised as it is,
\* KeyError becomes 400, any other exception 500
PlainExcept(exc) ==
    IF exc = "KeyError"
    THEN HTTPException(400, PlainKeyErrorText(cleaned_stock_code))
    ELSE HTTPException(500, ExceptionText)

\* an exception exc reaches the try block of a handler
PlainRaise(stg, exc) ==
    /\ Went(stg, exc)
    /\ response' = PlainExcept(exc)
    /\ pc' = "done"

\* normalize, then await data_provider.get_stock_data
PlainBegin ==
    /\ Plain /\ pc = "start"
    /\ cleaned_stock_code' = Cleaned(endpoint, stock_code, market_type)
    /\ calls' = Append(calls, Call("get_stock_data", cleaned_stock_code'))
    /\ Went("data", "running")
    /\ pc' = "await_data"
    /\ UNCHANGED << request, df, df_with_indicators, score, recommendation,
                    out, response, produced, aggregate >>

\* get_stock_data returned r: 400 on an error attribute, 404 on an empty frame
PlainDataReturns(r) ==
    /\ Plain /\ pc = "await_data"
    /\ df' = r
    /\ Went("data", IF r.has_error THEN "error"
                     ELSE IF Len(r.rows) = 0 THEN "empty" ELSE "ok")
    /\ IF r.has_error
       THEN /\ response' = ExceptHTTPException(HTTPException(400, r.error))
            /\ pc' = "done"
       ELSE IF Len(r.rows) = 0
       THEN /\ response' = ExceptHTTPException(
                               HTTPException(404, EmptyDataText(cleaned_stock_code)))
            /\ pc' = "done"
       ELSE /\ response' = response
            /\ pc' = IF endpoint = "get_stock_price" THEN "price" ELSE "indicators"
    /\ UNCHANGED << request, cleaned_stock_code, df_with_indicators, score,
                    recommendation, out, calls, produced, aggregate >>

\* get_stock_data raised
PlainDataRaises(exc) ==
    /\ Plain /\ pc = "await_data"
    /\ PlainRaise("data", exc)
    /\ UNCHANGED << request, cleaned_stock_code, df, df_with_indicators, score,
                    recommendation, out, calls, produced, aggregate >>

\* get_stock_price, lines 201-225
PriceBody ==
    [stock_code         |-> stock_code,
     market_type        |-> market_type,
     price              |-> Latest(df.rows).Close,
     open               |-> Latest(df.rows).Open,
     high               |-> Latest(df.rows).High,
     low                |-> Latest(df.rows).Low,
     volume             |-> Latest(df.rows).Volume,
     price_change_value |-> PriceChangeValue(df.rows),
     change_percent     |-> ChangePercent(df.rows),
     date               |-> Latest(df.rows).Date]

\* get_stock_price, lines 201-225: the price body, unless reading the closes
\* raises (lines 201-205)
PriceReturn ==
    /\ endpoint = "get_stock_price" /\ pc = "price"
    /\ IF LookupError(df.rows) # "none"
       THEN PlainRaise("summary", LookupError(df.rows))
       ELSE /\ Went("summary", "ok")
            /\ response' = Return(PriceBody)
            /\ pc' = "done"
    /\ UNCHANGED << request, cleaned_stock_code, df, df_with_indicators, score,
                    recommendation, out, calls, produced, aggregate >>

\* lines 277, 379, 442: indicator.calculate_indicators(df)
PlainIndicators(ind) ==
    /\ Plain /\ pc = "indicators"
    /\ calls' = Append(calls, Call("calculate_indicators", NoCode))
    /\ df_with_indicators' = WithIndicators(df.rows, ind)
    /\ Went("indicators", "ok")
    /\ pc' = CASE endpoint = "get_technical_analysis" -> "technical"
               [] endpoint = "get_stock_score"        -> "score"
               [] endpoint = "get_ai_analysis"        -> "narrative"
    /\ UNCHANGED << request, cleaned_stock_code, df, score, recommendation,
                    out, response, produced, aggregate >>

\* lines 277, 379, 442: calculate_indicators raised
PlainIndicatorsRaise(exc) ==
    /\ Plain /\ pc = "indicators"
    /\ calls' = Append(calls, Call("calculate_indicators", NoCode))
    /\ PlainRaise("indicators", exc)
    /\ UNCHANGED << request, cleaned_stock_code, df, df_with_indicators, score,
                    recommendation, out, produced, aggregate >>

\* get_technical_analysis, lines 316-327
TechnicalBody ==
    LET latest_data == Latest(df_with_indicators) IN
    [stock_code       |-> stock_code,
     market_type      |-> market_type,
     ma_trend         |-> TechMaTrend(latest_data),
     rsi              |-> Get(latest_data, "RSI", 0),
     macd             |-> Get(latest_data, "MACD", 0),
     macd_signal      |-> TechMacdSignal(latest_data),
     volume_status    |-> TechVolumeStatus(latest_data),
     bollinger_upper  |-> Get(latest_data, "BB_Upper", 0),
     bollinger_middle |-> Get(latest_data, "BB_Middle", 0),
     bollinger_lower  |-> Get(latest_data, "BB_Lower", 0)]

\* get_technical_analysis, lines 280-327
TechnicalReturn ==
    /\ endpoint = "get_technical_analysis" /\ pc = "technical"
    /\ response' = Return(TechnicalBody)
    /\ Went("summary", "ok")
    /\ pc' = "done"
    /\ UNCHANGED << request, cleaned_stock_code, df, df_with_indicators, score,
                    recommendation, out, calls, produced, aggregate >>

\* get_stock_score, lines 382-390
ScoreReturn(s) ==
    /\ endpoint = "get_stock_score" /\ pc = "score"
    /\ calls' = calls \o << Call("calculate_score", NoCode),
                           Call("get_recommendation", NoCode) >>
    /\ score' = s
    /\ recommendation' = Recommendation(s)
    /\ response' = Return([stock_code |-> stock_code, market_type |-> market_type,
                           score |-> score', recommendation |-> recommendation'])
    /\ Went("score", "ok")
    /\ pc' = "done"
    /\ UNCHANGED << request, cleaned_stock_code, df, df_with_indicators, out,
                    produced, aggregate >>

\* get_stock_score, line 382: calculate_score raised
ScoreRaises(exc) ==
    /\ endpoint = "get_stock_score" /\ pc = "score"
    /\ calls' = Append(calls, Call("calculate_score", NoCode))
    /\ PlainRaise("score", exc)
    /\ UNCHANGED << request, cleaned_stock_code, df, df_with_indicators, score,
                    recommendation, out, produced, aggregate >>

(***************************************************************************)
(* get_ai_analysis, lines 444-475: fold the narrative fragments.           *)
(***************************************************************************)
\* line 449: call ai_analyzer.get_ai_analysis and wait for its first fragment
AiStartNarrative ==
    /\ endpoint = "get_ai_analysis" /\ pc = "narrative"
    /\ full_ai_analysis_text' = << >>
    /\ analysis_score' = None
    /\ analysis_recommendation' = None
    /\ calls' = Append(calls, Call("get_ai_analysis", stock_code))
    /\ Went("narrative", "running")
    /\ pc' = "await_fragment"
    /\ UNCHANGED << request, cleaned_stock_code, df, df_with_indicators, score,
                    recommendation, out, response, produced >>

\* "未获取到AI分析结果"
NoResultText == <<"no AI analysis result">>

\* the check of line 466 on the text alone
AiResultTextOnly(text, s, rec) ==
    IF text # << >>
    THEN Return([stock_code |-> stock_code, market_type |-> market_type,
                 ai_analysis |-> text, score |-> s, recommendation |-> rec])
    ELSE ExceptHTTPException(HTTPException(404, NoResultText))

\* lines 466-475: the body, or 404 when nothing was collected
AiResult(text, s, rec) ==
    IF text # << >> \/ s # None \/ rec # None
    THEN Return([stock_code |-> stock_code, market_type |-> market_type,
                 ai_analysis |-> text, score |-> s, recommendation |-> rec])
    ELSE ExceptHTTPException(HTTPException(404, NoResultText))

\* the fold with = in place of +=: the last chunk replaces the text
FoldTextOverwrites(text, obj) ==
    IF "ai_analysis_chunk" \in DOMAIN obj
    THEN obj.ai_analysis_chunk
    ELSE text

\* lines 453-454: the text after folding the decoded fragment obj
FoldText(text, obj) ==
    IF "ai_analysis_chunk" \in DOMAIN obj
    THEN text \o obj.ai_analysis_chunk
    ELSE text

\* the loop without its except json.JSONDecodeError clause: a fragment that
\* does not decode raises out of the loop into except Exception
AiFragmentInvalidAborts(frag) ==
    /\ endpoint = "get_ai_analysis" /\ pc = "await_fragment"
    /\ CanYield(frag)
    /\ ~frag.valid
    /\ produced' = Append(produced, frag)
    /\ PlainRaise("narrative", "Exception")
    /\ UNCHANGED << request, cleaned_stock_code, df, df_with_indicators, score,
                    recommendation, out, calls, aggregate >>

\* lines 449-475: the narrative generator yields frag.  A fragment that does
\* not decode is skipped; the completion marker ends the loop and the handler
\* returns; otherwise the handler waits for the next fragment
AiFragment(frag) ==
    /\ endpoint = "get_ai_analysis" /\ pc = "await_fragment"
    /\ CanYield(frag)
    /\ produced' = Append(produced, frag)
    /\ IF ~frag.valid
       THEN /\ UNCHANGED << aggregate, response, stage >>
            /\ pc' = "await_fragment"
       ELSE /\ full_ai_analysis_text' = FoldText(full_ai_analysis_text, frag.obj)
            /\ IF Get(frag.obj, "status", None) = "completed"
               THEN /\ analysis_score' = Get(frag.obj, "score", None)
                    /\ analysis_recommendation' =
                           Get(frag.obj, "recommendation", None)
                    /\ response' = AiResult(full_ai_analysis_text',
                                            analysis_score',
                                            analysis_recommendation')
                    /\ Went("narrative", "ok")
                    /\ pc' = "done"
               ELSE /\ UNCHANGED << analysis_score, analysis_recommendation,
                                    response, stage >>
                    /\ pc' = "await_fragment"
    /\ UNCHANGED << request, cleaned_stock_code, df, df_with_indicators, score,
                    recommendation, out, calls >>

\* line 449: the narrative generator is exhausted; lines 466-475
AiNarrativeEnds ==
    /\ endpoint = "get_ai_analysis" /\ pc = "await_fragment"
    /\ response' = AiResult(full_ai_analysis_text, analysis_score,
                            analysis_recommendation)
    /\ Went("narrative", IF Completed THEN "ok" ELSE "no_marker")
    /\ pc' = "done"
    /\ UNCHANGED << request, cleaned_stock_code, df, df_with_indicators, score,
                    recommendation, out, calls, produced, aggregate >>

\* line 449: the narrative generator raised
AiNarrativeRaises(exc) ==
    /\ endpoint = "get_ai_analysis" /\ pc = "await_fragment"
    /\ ~Completed
    /\ PlainRaise("narrative", exc)
    /\ UNCHANGED << request, cleaned_stock_code, df, df_with_indicators, score,
                    recommendation, out, calls, produced, aggregate >>

PlainNext ==
    \/ PlainBegin
    \/ \E r \in DataResults : PlainDataReturns(r)
    \/ \E exc \in Exceptions : PlainDataRaises(exc)
    \/ PriceReturn
    \/ \E ind \in IndicatorRows : PlainIndicators(ind)
    \/ \E exc \in Exceptions : PlainIndicatorsRaise(exc)
    \/ TechnicalReturn
    \/ \E s \in Scores : ScoreReturn(s)
    \/ \E exc \in Exceptions : ScoreRaises(exc)
    \/ AiStartNarrative
    \/ \E frag \in Fragments : AiFragment(frag)
    \/ AiNarrativeEnds
    \/ \E exc \in Exceptions : AiNarrativeRaises(exc)

Next == StreamNext \/ PlainNext

Spec == Init /\ [][Next]_vars

(***************************************************************************)
(* The normalizer on its own: every code up to MaxCodeLen characters and   *)
(* every market type, through the first step of each handler.              *)
(***************************************************************************)
AllCodes == UNION { [1..n -> Alphabet] : n \in 0..MaxCodeLen }
AllMarketTypes == {"A", "HK", "US", "ETF", "LOF"}

NormalizeInit ==
    /\ endpoint \in Endpoints
    /\ stock_code \in AllCodes
    /\ market_type \in AllMarketTypes
    /\ pc = "start"
    /\ cleaned_stock_code = << >>
    /\ df = NoFrame
    /\ df_with_indicators = << >>
    /\ score = None
    /\ recommendation = None
    /\ out = << >>
    /\ response = NoResponse
    /\ calls = << >>
    /\ stage = NotRun
    /\ produced = << >>
    /\ full_ai_analysis_text = << >>
    /\ analysis_score = None
    /\ analysis_recommendation = None

NormalizeNext == StreamBegin \/ PlainBegin

SpecNormalize == NormalizeInit /\ [][NormalizeNext]_vars

(***************************************************************************)
(* Properties.                                                             *)
(***************************************************************************)
\* an Error line: yielded by an error yield and carrying the error field
IsError(ev) == ev.line \in {83, 89, 152, 156} /\ "error" \in DOMAIN ev.body
IsBasic(ev) == ev.line = 143
IsNarrative(ev) == ev.line = 147
IsMarker(ev) == IsNarrative(ev) /\ IsCompleted(ev.body)

Failures == {"error", "empty", "no_marker", "KeyError", "Exception"}
Stage1Failed == stage.data \in {"error", "empty", "KeyError", "Exception"}

\* C1: in the streaming endpoint, once data retrieval has failed (error
\* attribute, empty frame, or an exception) the emitted sequence is exactly one
\* Error line, no Basic or narrative line, and the generator only ends: it
\* stays so in every later state, and no further collaborator is called.
C1_Stage1FailureYieldsOneError ==
    (Streaming /\ Stage1Failed) =>
        /\ Len(out) = 1
        /\ IsError(out[1])
        /\ pc \in {"yield_error", "done", "cancelled"}
        /\ Len(calls) = 1

C1_Witness ==
    /\ Streaming /\ pc = "done"
    /\ stage.data = "empty"
    /\ Len(out) = 1 /\ out[1].line = 89

AllStagesSucceeded ==
    /\ Streaming /\ pc = "done"
    /\ stage.data = "ok" /\ stage.indicators = "ok" /\ stage.score = "ok"
    /\ stage.summary = "ok" /\ stage.narrative = "ok"

\* C2: in the streaming endpoint the Basic line comes before every narrative
\* line (in every state), and a finished stream whose stages all succeeded
\* holds one Basic line, first, and exactly one completion marker among its
\* narrative lines.
C2_BasicFirstOneMarker ==
    /\ Streaming =>
          \A j \in 1..Len(out) :
              IsNarrative(out[j]) => (j > 1 /\ IsBasic(out[1]))
    /\ AllStagesSucceeded =>
          /\ Len(out) >= 2
          /\ IsBasic(out[1])
          /\ \A j \in 2..Len(out) : IsNarrative(out[j])
          /\ Cardinality({ j \in 1..Len(out) : IsMarker(out[j]) }) = 1

C2_Witness ==
    /\ AllStagesSucceeded
    /\ Len(out) = 3
    /\ ~IsMarker(out[2]) /\ IsMarker(out[3])

\* C3: every sequence the streaming endpoint emits holds at most one Error
\* line, and an Error line is the last line: in no state does anything follow it.
C3_AtMostOneErrorAndLast ==
    Streaming =>
        /\ \A i \in 1..Len(out) : IsError(out[i]) => i = Len(out)
        /\ Cardinality({ i \in 1..Len(out) : IsError(out[i]) }) <= 1

C3_Witness ==
    /\ Streaming /\ pc = "done"
    /\ Len(out) = 3
    /\ IsBasic(out[1]) /\ IsNarrative(out[2]) /\ IsError(out[3])

\* C4: a streaming response that runs to its end without the consumer
\* disconnecting ends with the narrative's completion marker or with an Error
\* line, whatever the narrative generator produced.
C4_EndsWithMarkerOrError ==
    (Streaming /\ pc = "done") =>
        /\ Len(out) > 0
        /\ IsMarker(out[Len(out)]) \/ IsError(out[Len(out)])

\* C5: every Error line of the streaming endpoint carries the three fields
\* error, stock_code and status, with status "error".
C5_ErrorEventHasAllFields ==
    Streaming =>
        \A i \in 1..Len(out) :
            IsError(out[i]) =>
                /\ {"error", "stock_code", "status"} \subseteq DOMAIN out[i].body
                /\ out[i].body.status = "error"

Disconnected == stage.cancel # "not_run"

\* C6: when the consumer of the streaming endpoint disconnects, at any
\* suspension point, the disconnecting step and every later step emit no line
\* (so no Error line) and start no collaborator call, and the generator is left
\* abandoned.
C6_CancellationIsSilent ==
    [][ Disconnected' =>
            /\ out' = out
            /\ calls' = calls
            /\ pc' = "cancelled" ]_vars

C6_Witness ==
    /\ Streaming /\ pc = "cancelled"
    /\ stage.cancel = "CancelledError"
    /\ stage.narrative = "running"
    /\ Len(produced) >= 1
    /\ Len(out) = Len(produced) + 1

\* position of a collaborator call in the pipeline
Rank(fn) ==
    CASE fn = "get_stock_data"       -> 1
      [] fn = "calculate_indicators" -> 2
      [] fn = "calculate_score"      -> 3
      [] fn = "get_recommendation"   -> 4
      [] fn = "get_ai_analysis"      -> 5

Called(fn) == \E i \in 1..Len(calls) : calls[i].fn = fn

\* C7: within one request every collaborator is called at most once and in
\* pipeline order, a stage is called only after the stage before it succeeded,
\* no call follows a failed stage, and the narrative generator is called only
\* after data retrieval returned a frame with rows and without an error.
C7_NoRetrySequentialStages ==
    /\ \A i, j \in 1..Len(calls) :
           i < j => Rank(calls[i].fn) < Rank(calls[j].fn)
    /\ Called("calculate_indicators") => stage.data = "ok"
    /\ Called("calculate_score") => stage.indicators = "ok"
    /\ Called("get_recommendation") => stage.score = "ok"
    /\ Called("get_ai_analysis") =>
           /\ stage.data = "ok" /\ stage.indicators = "ok"
           /\ ~df.has_error /\ Len(df.rows) > 0
           /\ Streaming => (stage.score = "ok" /\ stage.summary = "ok")
    /\ stage.data \in Failures => Len(calls) = 1
    /\ stage.indicators \in Failures => ~Called("calculate_score")
    /\ (stage.indicators \in Failures \/ stage.score \in Failures
        \/ stage.summary \in Failures) => ~Called("get_ai_analysis")
    /\ stage.narrative \in Failures =>
           calls[Len(calls)].fn = "get_ai_analysis"

C7_Witness ==
    /\ Streaming /\ pc = "done"
    /\ Len(calls) = 5
    /\ stage.narrative = "Exception"

TakesCode(fn) == fn \in {"get_stock_data", "get_ai_analysis"}

\* C8: every collaborator call that takes a code (data retrieval, narrative
\* generation) is passed the normalized code, in the streaming and in the
\* aggregating endpoint.
C8_CollaboratorsGetNormalizedCode ==
    endpoint \in {"analyze_stock", "get_ai_analysis"} =>
        \A i \in 1..Len(calls) :
            TakesCode(calls[i].fn) => calls[i].code = cleaned_stock_code

\* C9: every line or body that carries a stock_code field echoes the code as
\* the caller gave it.
C9_StockCodeEchoesOriginal ==
    /\ \A i \in 1..Len(out) :
           "stock_code" \in DOMAIN out[i].body =>
               out[i].body.stock_code = stock_code
    /\ response.status = 200 => response.body.stock_code = stock_code

\* the normalization as the contract states it
IsPrefixed(code) ==
    /\ Len(code) >= 2
    /\ code[1] \in {"s", "S"}
    /\ code[2] \in {"h", "H", "z", "Z"}
Normalized(code, mkt) ==
    IF mkt = "A" /\ IsPrefixed(code) THEN Tail(Tail(code)) ELSE code

\* C10: for every code and market type, every handler's normalized code is
\* the code without its first two characters when the market type is "A" and
\* the code begins with sh or sz in any letter case, and the code itself
\* otherwise; so all five handlers agree.
C10_NormalizationContract ==
    pc = "await_data" =>
        /\ cleaned_stock_code = Normalized(stock_code, market_type)
        /\ \A e \in Endpoints :
               Cleaned(e, stock_code, market_type) = cleaned_stock_code
        /\ calls = << Call("get_stock_data", cleaned_stock_code) >>

C10_Witness ==
    /\ pc = "await_data"
    /\ endpoint = "get_stock_price"
    /\ market_type = "A"
    /\ stock_code = <<"S", "z", "6">>
    /\ cleaned_stock_code = <<"6">>


PlainDone == Plain /\ pc = "done"
Stages == {"data", "indicators", "score", "summary", "narrative"}
Raised(exc) == \E stg \in Stages : stage[stg] = exc

\* C11 as stated: in the four handlers that return one object, a data-source
\* error gives 400, an empty frame 404, and every exception 500.
C11_EveryExceptionIs500 ==
    PlainDone =>
        /\ stage.data = "error" => response.status = 400
        /\ stage.data = "empty" => response.status = 404
        /\ (Raised("KeyError") \/ Raised("Exception")) => response.status = 500

\* C11 amended: a data-source error gives 400, an empty frame 404, a KeyError
\* 400, every other exception 500; the 400 and 404 raised inside the handler
\* (data error, empty frame, no AI result) leave it with their own status and
\* detail, and a handler without any of these returns 200.
C11_StatusCodes ==
    PlainDone =>
        /\ stage.data = "error" =>
               response = HTTPException(400, df.error)
        /\ stage.data = "empty" =>
               response = HTTPException(404, EmptyDataText(cleaned_stock_code))
        /\ Raised("KeyError") => response.status = 400
        /\ Raised("Exception") => response.status = 500
        /\ response.status \in {200, 400, 404, 500}
        /\ response.status = 500 => Raised("Exception")
        /\ (response.status = 404 /\ stage.data = "ok") =>
               /\ endpoint = "get_ai_analysis"
               /\ response = HTTPException(404, NoResultText)

C11_Witness ==
    /\ PlainDone
    /\ endpoint = "get_stock_score"
    /\ stage.data = "empty"
    /\ response.status = 404


Aggregating == endpoint = "get_ai_analysis"

\* the fragments that decode
Decoded(frags) == SelectSeq(frags, LAMBDA f : f.valid)

\* the texts of fragments, joined in order
RECURSIVE JoinedText(_)
JoinedText(frags) ==
    IF frags = << >> THEN << >>
    ELSE Get(Head(frags).obj, "ai_analysis_chunk", << >>) \o JoinedText(Tail(frags))

\* field key of the completion marker among frags, None without one
TerminalField(frags, key) ==
    IF \E i \in 1..Len(frags) : IsCompleted(frags[i])
    THEN Get(frags[CHOOSE i \in 1..Len(frags) : IsCompleted(frags[i])].obj,
             key, None)
    ELSE None

NarrativeEnded ==
    /\ Aggregating /\ pc = "done"
    /\ stage.data = "ok" /\ stage.indicators = "ok"
    /\ stage.narrative \in {"ok", "no_marker"}

NothingContributed ==
    /\ JoinedText(Decoded(produced)) = << >>
    /\ TerminalField(produced, "score") = None
    /\ TerminalField(produced, "recommendation") = None

IsNoResult == response.status = 404 /\ response.body.detail = NoResultText

\* C12: get_ai_analysis answers 404 "no result" exactly when data retrieval
\* and the indicators succeeded and the narrative ended having contributed no
\* text, no score and no recommendation; when it contributed any of them the
\* answer is a success body.
C12_NoResultExactlyWhenNothing ==
    /\ NarrativeEnded => (IsNoResult <=> NothingContributed)
    /\ NarrativeEnded => (~NothingContributed <=> response.status = 200)
    /\ IsNoResult => NarrativeEnded

C12_Witness ==
    /\ NarrativeEnded
    /\ Len(produced) = 0
    /\ IsNoResult

\* C13: the text get_ai_analysis returns is the texts of all the fragments the
\* generator produced, joined in production order, and its score and
\* recommendation are those of the completion marker, null without one.
C13_AggregateIsJoinOfAllFragments ==
    (Aggregating /\ response.status = 200) =>
        /\ response.body.ai_analysis = JoinedText(Decoded(produced))
        /\ response.body.score = TerminalField(produced, "score")
        /\ response.body.recommendation = TerminalField(produced, "recommendation")
        /\ stage.narrative = "ok" <=> Completed

C13_Witness ==
    /\ Aggregating /\ response.status = 200
    /\ Len(produced) = 3
    /\ response.body.ai_analysis = <<"a", "b", "z">>
    /\ response.body.score = "70"

HasInvalid(frags) == \E i \in 1..Len(frags) : ~frags[i].valid

\* C19: in get_ai_analysis a fragment that is not valid JSON changes neither
\* the text nor the score nor the recommendation and does not end the loop or
\* set a response; while the loop runs the text is the join of the fragments
\* that decoded, so those before and after it are folded in order; and a
\* finished request whose narrative did not raise is not answered 500.
C19_InvalidFragmentIsSkipped ==
    /\ [][ (Aggregating /\ produced' # produced
            /\ ~produced'[Len(produced')].valid) =>
               /\ aggregate' = aggregate
               /\ response' = response
               /\ stage' = stage
               /\ pc' = "await_fragment" ]_vars
    /\ [](Aggregating /\ pc = "await_fragment" =>
               full_ai_analysis_text = JoinedText(Decoded(produced)))
    /\ [](NarrativeEnded /\ HasInvalid(produced) =>
               response.status \in {200, 404})

C19_Witness ==
    /\ NarrativeEnded
    /\ Len(produced) = 3
    /\ produced[1].valid /\ ~produced[2].valid /\ produced[3].valid
    /\ response.status = 200
    /\ response.body.ai_analysis = <<"a", "b">>


(***************************************************************************)
(* The classifiers on their own: analyze_stock and get_technical_analysis  *)
(* run up to their summary over every latest row whose columns are absent  *)
(* or hold a small level.                                                  *)
(***************************************************************************)
MaxLevel == 2
MaxVolume == 3

\* every row over some of the columns keys, with values from vals
RowsOver(keys, vals) == UNION { [S -> vals] : S \in SUBSET keys }

\* the derived columns calculate_indicators may add to the latest row
ClassifyRows ==
    { ma @@ macd @@ vma :
        ma   \in RowsOver({"MA5", "MA20", "MA60"}, 0..MaxLevel),
        macd \in RowsOver({"MACD", "Signal"}, {-1, 0, 1}),
        vma  \in RowsOver({"Volume_MA"}, 0..MaxVolume) }

\* a bar of a frame that lacks the Volume column
BarNoVolume == [k \in DOMAIN BarLast \ {"Volume"} |-> BarLast[k]]

\* one-bar frames get_stock_data may return, by the bar's volume
ClassifyData ==
    { [has_error |-> FALSE, error |-> << >>, rows |-> <<bar>>] :
        bar \in {BarNoVolume}
                \cup { [BarLast EXCEPT !.Volume = v] : v \in 0..MaxVolume } }

ClassifyInit ==
    /\ endpoint \in {"analyze_stock", "get_technical_analysis"}
    /\ stock_code = <<"6">>
    /\ market_type = "A"
    /\ pc = "start"
    /\ cleaned_stock_code = << >>
    /\ df = NoFrame
    /\ df_with_indicators = << >>
    /\ score = None
    /\ recommendation = None
    /\ out = << >>
    /\ response = NoResponse
    /\ calls = << >>
    /\ stage = NotRun
    /\ produced = << >>
    /\ full_ai_analysis_text = << >>
    /\ analysis_score = None
    /\ analysis_recommendation = None

ClassifyNext ==
    \/ StreamBegin
    \/ pc = "await_data" /\ \E r \in ClassifyData : StreamDataReturns(r)
    \/ pc = "indicators" /\ \E ind \in ClassifyRows : StreamIndicators(ind)
    \/ StreamScore("85")
    \/ StreamYieldBasic("2025-01-01")
    \/ PlainBegin
    \/ pc = "await_data" /\ \E r \in ClassifyData : PlainDataReturns(r)
    \/ pc = "indicators" /\ \E ind \in ClassifyRows : PlainIndicators(ind)
    \/ TechnicalReturn

SpecClassify == ClassifyInit /\ [][ClassifyNext]_vars

\* the value of column key in the latest row, 0 when the row lacks it
LatestLevel(key) ==
    LET row == df_with_indicators[Len(df_with_indicators)]
    IN  IF key \in DOMAIN row THEN row[key] ELSE 0

\* the labels this state reports under field: the Basic event's, or the
\* technical body's
Reported(field) ==
    IF Streaming /\ Len(out) > 0 /\ IsBasic(out[1])
    THEN {out[1].body[field]}
    ELSE IF endpoint = "get_technical_analysis" /\ response.status = 200
    THEN {response.body[field]}
    ELSE {}

\* C14: the reported trend is UP exactly when short > medium > long, DOWN
\* exactly when short < medium < long, and FLAT for every other combination
\* of the three averages, an absent average counting as 0.
C14_TrendIsTotal ==
    \A t \in Reported("ma_trend") :
        LET short  == LatestLevel("MA5")
            medium == LatestLevel("MA20")
            long   == LatestLevel("MA60")
        IN  /\ t \in {"UP", "DOWN", "FLAT"}
            /\ t = "UP" <=> (short > medium /\ medium > long)
            /\ t = "DOWN" <=> (short < medium /\ medium < long)
            /\ (short = medium \/ medium = long) => t = "FLAT"
            /\ (short > medium /\ medium < long) => t = "FLAT"
            /\ (short < medium /\ medium > long) => t = "FLAT"

C14_Witness ==
    /\ Streaming
    /\ Reported("ma_trend") = {"FLAT"}
    /\ "MA20" \notin DOMAIN Latest(df_with_indicators)
    /\ LatestLevel("MA5") > 0 /\ LatestLevel("MA60") > 0

\* C15: the reported volume regime is HIGH exactly when volume is above 1.5
\* times its average, LOW exactly when it is below 0.5 times its average, and
\* NORMAL otherwise, so at both boundaries; absent values count as 0.
C15_VolumeRegime ==
    \A v \in Reported("volume_status") :
        LET volume  == LatestLevel("Volume")
            average == LatestLevel("Volume_MA")
        IN  /\ v \in {"HIGH", "LOW", "NORMAL"}
            /\ v = "HIGH" <=> 2 * volume > 3 * average
            /\ v = "LOW" <=> 2 * volume < average
            /\ (2 * volume = 3 * average \/ 2 * volume = average) => v = "NORMAL"

C15_Witness ==
    /\ Streaming
    /\ Reported("volume_status") = {"NORMAL"}
    /\ LatestLevel("Volume_MA") > 0
    /\ 2 * LatestLevel("Volume") = 3 * LatestLevel("Volume_MA")

\* C18: for every latest row the three labels of the Basic event are the ones
\* get_technical_analysis computes for that row, and the three labels of the
\* get_technical_analysis body are the ones the streaming endpoint computes
\* for it; the MACD label is BUY above the signal, SELL below it, HOLD at it.
C18_SameLabelsInBothEndpoints ==
    LET row == Latest(df_with_indicators) IN
    /\ (Streaming /\ Reported("ma_trend") # {}) =>
           /\ out[1].body.ma_trend = TechMaTrend(row)
           /\ out[1].body.macd_signal = TechMacdSignal(row)
           /\ out[1].body.volume_status = TechVolumeStatus(row)
    /\ (Plain /\ Reported("ma_trend") # {}) =>
           /\ response.body.ma_trend = MaTrend(row)
           /\ response.body.macd_signal = MacdSignal(row)
           /\ response.body.volume_status = VolumeStatus(row)
    /\ \A m \in Reported("macd_signal") :
           /\ m = "BUY" <=> LatestLevel("MACD") > LatestLevel("Signal")
           /\ m = "SELL" <=> LatestLevel("MACD") < LatestLevel("Signal")
           /\ m = "HOLD" <=> LatestLevel("MACD") = LatestLevel("Signal")

C18_Witness ==
    /\ endpoint = "get_technical_analysis"
    /\ Reported("macd_signal") = {"HOLD"}
    /\ Reported("volume_status") = {"NORMAL"}
    /\ 2 * LatestLevel("Volume") = LatestLevel("Volume_MA")
    /\ {"MACD", "Signal"} \subseteq DOMAIN Latest(df_with_indicators)


(***************************************************************************)
(* The price fields on their own: analyze_stock up to its Basic event and  *)
(* get_stock_price over every frame of one or two bars with small closes   *)
(* and a precomputed change that is absent, 0 or 7.                        *)
(***************************************************************************)
MaxClose == 2

\* the latest bar, with and without the Change_pct column
PriceLastBars ==
    { [BarLast EXCEPT !.Close = c] : c \in 0..MaxClose }
    \cup { [BarLastPct EXCEPT !.Close = c, !.Change_pct = p] :
             c \in 0..MaxClose, p \in {0, 7} }

PricePrevBars == { [BarPrev EXCEPT !.Close = c] : c \in 0..MaxClose }

PriceData ==
    { [has_error |-> FALSE, error |-> << >>, rows |-> f] :
        f \in { <<last>> : last \in PriceLastBars }
              \cup { <<prev, last>> : prev \in PricePrevBars,
                                      last \in PriceLastBars } }

PriceInit ==
    /\ endpoint \in {"analyze_stock", "get_stock_price"}
    /\ stock_code = <<"6">>
    /\ market_type = "A"
    /\ pc = "start"
    /\ cleaned_stock_code = << >>
    /\ df = NoFrame
    /\ df_with_indicators = << >>
    /\ score = None
    /\ recommendation = None
    /\ out = << >>
    /\ response = NoResponse
    /\ calls = << >>
    /\ stage = NotRun
    /\ produced = << >>
    /\ full_ai_analysis_text = << >>
    /\ analysis_score = None
    /\ analysis_recommendation = None

PriceNext ==
    \/ StreamBegin
    \/ \E r \in PriceData : StreamDataReturns(r)
    \/ \E ind \in IndicatorRows : StreamIndicators(ind)
    \/ StreamScore("85")
    \/ StreamYieldBasic("2025-01-01")
    \/ PlainBegin
    \/ \E r \in PriceData : PlainDataReturns(r)
    \/ PriceReturn

SpecPrice == PriceInit /\ [][PriceNext]_vars

\* the bars the price fields are computed from
PricedBars == IF Streaming THEN df_with_indicators ELSE df.rows

\* the bodies this state reports price fields in
PriceReports ==
    IF Streaming /\ Len(out) > 0 /\ IsBasic(out[1])
    THEN {out[1].body}
    ELSE IF endpoint = "get_stock_price" /\ response.status = 200
    THEN {response.body}
    ELSE {}

\* C17: in the Basic event and in the get_stock_price body, price is the
\* latest bar's close and price_change_value is that close minus the previous
\* bar's close, the previous bar of a one-bar series being the latest bar, so
\* 0; change_percent is the bar's precomputed value when it has one, else
\* price_change_value / previous close * 100 when that close is not 0, else
\* null.
C17_PriceChange ==
    \A body \in PriceReports :
        LET n         == Len(PricedBars)
            close     == PricedBars[n].Close
            prevclose == IF n = 1 THEN close ELSE PricedBars[n - 1].Close
            pct       == body.change_percent
        IN  /\ body.price = close
            /\ body.price_change_value = close - prevclose
            /\ n = 1 => body.price_change_value = 0
            /\ IF "Change_pct" \in DOMAIN PricedBars[n]
               THEN /\ ~pct.null
                    /\ pct.num = PricedBars[n].Change_pct * pct.den
               ELSE IF prevclose # 0
               THEN /\ ~pct.null
                    /\ pct.num * prevclose = (close - prevclose) * 100 * pct.den
               ELSE pct.null

C17_Witness ==
    /\ endpoint = "get_stock_price"
    /\ PriceReports # {}
    /\ Len(df.rows) = 2
    /\ "Change_pct" \notin DOMAIN df.rows[2]
    /\ df.rows[1].Close = 0
    /\ response.body.price_change_value > 0
    /\ response.body.change_percent.null


\* C16: the Basic event depends on nothing but the request and the
\* collaborator outputs: whatever the wall clock reads at the time of the
\* call, the request and collaborator outputs of this run yield the Basic
\* event this run has yielded.
C16_BasicIsDeterministic ==
    (Streaming /\ Len(out) > 0 /\ IsBasic(out[1])) =>
        \A date \in Dates : out[1] = BasicEvent(date)

====
